---- MODULE Spec2Model ----
(***************************************************************************)
(* A model of the notebook f_cloudmle.ipynb: the package it writes         *)
(* (taxifaremodel/model.py, taxifaremodel/task.py) and the shell cells     *)
(* that upload the data, submit the training job, deploy the model and     *)
(* ask for predictions.                                                    *)
(*                                                                         *)
(* Numbers of the CSV files are kept in tenths (40.7 is 407), with the     *)
(* dtype next to them.  Text (a CSV line, a command-line value) is a       *)
(* sequence of one-character strings.                                      *)
(***************************************************************************)
EXTENDS Integers, Sequences, FiniteSets, TLC

VARIABLES
    \* ---- parse_row (model.py) ----
    cells,      \* the field texts a CSV line was written from
    row,        \* the CSV line handed to parse_row
    parsed,     \* what parse_row returned, or NotYet
    \* ---- read_dataset (model.py) ----
    files,      \* the files at hand: name -> lines
    csv_path,   \* the file pattern handed to read_dataset
    dataset,    \* what read_dataset yielded, or NotYet
    \* ---- task.py and train_and_evaluate (one run of the package) ----
    argv,       \* the command line: option -> the text given with it
    store,      \* the directories: path -> the files in it
    task,       \* the run: where it is, its params, its global step
    \* ---- a second run, from the same directories, to compare with ----
    argvB,
    storeB,
    taskB,
    \* ---- the upload cell ----
    localFiles, \* the notebook's directory: file name -> content
    bucket,     \* gs://BUCKET: whether it exists, and its objects
    upload,     \* the cell: the command it is at, the errors printed
    \* ---- the job name of the submit cell ----
    clock,      \* the UTC time
    submissions,\* the executions of jobs submit training: time and job name
    \* ---- the submit cell and the jobs of the training service ----
    submit,     \* the cell: the command it is at
    jobs,       \* the jobs submitted, in order: each a run of the package
    \* ---- the deploy cell, the prediction service, the predict cell ----
    exported,   \* the exports listed under trained_small/export/exporter
    service,    \* model taxifare: whether it exists, its versions, the default
    deploy,     \* the cell: the command it is at, what its commands did
    answer,     \* what the last predict call was answered with
    instance,   \* the instance of a prediction request
    reply       \* what the exported model made of that instance

parseVars == <<cells, row, parsed>>
readVars == <<files, csv_path, dataset>>
taskVars == <<argv, store, task>>
twinVars == <<argvB, storeB, taskB>>
uploadVars == <<localFiles, bucket, upload>>
nameVars == <<clock, submissions>>
submitVars == <<submit, jobs>>
deployVars == <<exported, service, deploy, answer, instance, reply>>
vars ==
    <<parseVars, readVars, taskVars, twinVars, uploadVars, nameVars,
      submitVars, deployVars>>

\* Results carry a status: not_yet before the call, then ok or error.
NotYet == [status |-> "not_yet"]

Failed == [status |-> "error"]

\* The parts of the model a specification does not use stay as they are here.
ParseIdle == cells = <<>> /\ row = <<>> /\ parsed = NotYet

ReadIdle == files = <<>> /\ csv_path = <<>> /\ dataset = NotYet

TaskIdle == argv = <<>> /\ store = <<>> /\ task = NotYet

TwinIdle == argvB = <<>> /\ storeB = <<>> /\ taskB = NotYet

UploadIdle == localFiles = <<>> /\ bucket = NotYet /\ upload = NotYet

NameIdle == clock = NotYet /\ submissions = <<>>

SubmitIdle == submit = NotYet /\ jobs = <<>>

DeployIdle ==
    /\ exported = {} /\ service = NotYet /\ deploy = NotYet /\ answer = NotYet
    /\ instance = NotYet /\ reply = NotYet

cloudVars == <<uploadVars, nameVars, submitVars, deployVars>>

CloudIdle == UploadIdle /\ NameIdle /\ SubmitIdle /\ DeployIdle

(***************************************************************************)
(* Text helpers                                                            *)
(***************************************************************************)
Digits == <<"0", "1", "2", "3", "4", "5", "6", "7", "8", "9">>

IsDigit(c) == \E i \in DOMAIN Digits : Digits[i] = c

DigitVal(c) == (CHOOSE i \in DOMAIN Digits : Digits[i] = c) - 1

Range(s) == {s[i] : i \in DOMAIN s}

\* The text of a Python str.join: the parts with sep between them.
RECURSIVE Join(_, _)
Join(parts, sep) ==
    IF parts = <<>> THEN <<>>
    ELSE IF Len(parts) = 1 THEN parts[1]
    ELSE parts[1] \o <<sep>> \o Join(Tail(parts), sep)

\* The fields of a CSV line: the texts between the delimiters, in order.
RECURSIVE SplitFrom(_, _, _)
SplitFrom(line, sep, cur) ==
    IF line = <<>> THEN <<cur>>
    ELSE IF Head(line) = sep THEN <<cur>> \o SplitFrom(Tail(line), sep, <<>>)
    ELSE SplitFrom(Tail(line), sep, Append(cur, Head(line)))

Split(line, sep) == SplitFrom(line, sep, <<>>)

\* The value of a run of decimal digits.
RECURSIVE DigitsValue(_, _)
DigitsValue(s, acc) ==
    IF s = <<>> THEN acc
    ELSE DigitsValue(Tail(s), 10 * acc + DigitVal(Head(s)))

IsDigitText(s) == s # <<>> /\ \A i \in DOMAIN s : IsDigit(s[i])

(***************************************************************************)
(* model.py: the CSV columns and parse_row                                 *)
(***************************************************************************)
Float32(t) == [dtype |-> "float32", tenths |-> t]

Int32(n) == [dtype |-> "int32", tenths |-> 10 * n]

\* What a field that does not convert gives.
Error == [dtype |-> "error", tenths |-> 0]

CSV_COLUMN_NAMES ==
    <<"fare_amount", "dayofweek", "hourofday", "pickuplon", "pickuplat",
      "dropofflon", "dropofflat">>

CSV_DEFAULTS ==
    <<Float32(0), Int32(1), Int32(0), Float32(-740), Float32(400),
      Float32(-740), Float32(407)>>

\* CSV_COLUMN_NAMES[1:]
FEATURE_NAMES == SubSeq(CSV_COLUMN_NAMES, 2, Len(CSV_COLUMN_NAMES))

\* The text without a leading minus sign.
Unsigned(text) == IF text # <<>> /\ Head(text) = "-" THEN Tail(text) ELSE text

Sign(text) == IF text # <<>> /\ Head(text) = "-" THEN -1 ELSE 1

\* A field of an int32 column: an optional sign and decimal digits.
ParseInt32(text) ==
    IF IsDigitText(Unsigned(text))
    THEN Int32(Sign(text) * DigitsValue(Unsigned(text), 0))
    ELSE Error

\* A field of a float32 column: an optional sign, decimal digits and at most
\* one decimal place (the model keeps tenths).
ParseFloat32(text) ==
    LET u == Unsigned(text)
        parts == Split(u, ".")
    IN  IF Len(parts) = 1 /\ IsDigitText(parts[1])
        THEN Float32(Sign(text) * 10 * DigitsValue(parts[1], 0))
        ELSE IF Len(parts) = 2 /\ IsDigitText(parts[1]) /\ IsDigitText(parts[2])
                /\ Len(parts[2]) = 1
        THEN Float32(Sign(text) * (10 * DigitsValue(parts[1], 0)
                                    + DigitsValue(parts[2], 0)))
        ELSE Error

\* One field of tf.decode_csv: an empty field takes the column's default, any
\* other is converted to the dtype of the default.
DecodeField(text, default) ==
    IF text = <<>> THEN default
    ELSE IF default.dtype = "int32" THEN ParseInt32(text)
    ELSE ParseFloat32(text)

\* tf.decode_csv(records, record_defaults): one value per column, or an error
\* when the line has another number of fields or a field does not convert.
decode_csv(records, record_defaults) ==
    LET texts == Split(records, ",")
    IN  IF Len(texts) # Len(record_defaults) THEN Failed
        ELSE LET fields == [i \in DOMAIN texts |->
                               DecodeField(texts[i], record_defaults[i])]
             IN  IF \E i \in DOMAIN fields : fields[i] = Error THEN Failed
                 ELSE [status |-> "ok", fields |-> fields]

Min(a, b) == IF a < b THEN a ELSE b

Max(a, b) == IF a > b THEN a ELSE b

\* dict(zip(keys, vals)): a later pair of the same key replaces an earlier one.
DictZip(keys, vals) ==
    LET n == Min(Len(keys), Len(vals))
    IN  [k \in {keys[i] : i \in 1..n} |->
            vals[CHOOSE i \in 1..n : keys[i] = k /\ \A j \in (i + 1)..n : keys[j] # k]]

\* The dictionary after d.pop(k).
Pop(d, k) == [n \in DOMAIN d \ {k} |-> d[n]]

\* A bug parse_row could have: the label is read but stays among the features.
parse_row_KeepsLabel(r) ==
    LET decoded == decode_csv(r, CSV_DEFAULTS)
    IN  IF decoded.status # "ok" THEN Failed
        ELSE LET features == DictZip(CSV_COLUMN_NAMES, decoded.fields)
             IN  [status |-> "ok", features |-> features,
                  label |-> features["fare_amount"]]

parse_row(r) ==
    LET decoded == decode_csv(r, CSV_DEFAULTS)
    IN  IF decoded.status # "ok" THEN Failed
        ELSE LET features == DictZip(CSV_COLUMN_NAMES, decoded.fields)
                 label == features["fare_amount"]
             IN  [status |-> "ok", features |-> Pop(features, "fare_amount"),
                  label |-> label]

(***************************************************************************)
(* SpecParse: parse_row applied to the lines of the data model             *)
(***************************************************************************)
\* Field texts of the float32 columns and of the int32 columns.
FloatTexts == {<<>>, <<"1", "2">>, <<"-", "7", "3", ".", "9">>}

IntTexts == {<<>>, <<"7">>, <<"1", "2">>}

\* The lines of the data model: seven fields, each empty or a number of the
\* column's type.
RowCells ==
    {<<a, b, c, d, e, f, g>> :
        a \in FloatTexts, b \in IntTexts, c \in IntTexts, d \in FloatTexts,
        e \in FloatTexts, f \in FloatTexts, g \in FloatTexts}

InitParse ==
    /\ cells \in RowCells
    /\ row = Join(cells, ",")
    /\ parsed = NotYet
    /\ ReadIdle /\ TaskIdle /\ TwinIdle /\ CloudIdle

ParseRow ==
    /\ parsed = NotYet
    /\ parsed' = parse_row(row)
    /\ UNCHANGED <<cells, row>>

NextParse == ParseRow /\ UNCHANGED <<readVars, taskVars, twinVars, cloudVars>>

SpecParse == InitParse /\ [][NextParse]_vars

\* The defaults and types the columns are documented to have.
DocumentedDefault(i) ==
    CASE i = 1 -> Float32(0)
      [] i = 2 -> Int32(1)
      [] i = 3 -> Int32(0)
      [] i = 4 -> Float32(-740)
      [] i = 5 -> Float32(400)
      [] i = 6 -> Float32(-740)
      [] i = 7 -> Float32(407)

DocumentedColumn(i) ==
    CASE i = 1 -> "fare_amount"
      [] i = 2 -> "dayofweek"
      [] i = 3 -> "hourofday"
      [] i = 4 -> "pickuplon"
      [] i = 5 -> "pickuplat"
      [] i = 6 -> "dropofflon"
      [] i = 7 -> "dropofflat"

\* What the i-th field of the line stands for.
FieldValue(i) ==
    IF cells[i] = <<>> THEN DocumentedDefault(i)
    ELSE IF DocumentedDefault(i).dtype = "int32" THEN ParseInt32(cells[i])
    ELSE ParseFloat32(cells[i])

\* C2: for every CSV row of the data model parse_row gives the i-th field to
\* the i-th column name, puts the i-th default in the place of an empty field,
\* returns the fare_amount value as the label and exactly the six other columns
\* as the features.
C2_ParseRowMapsColumns ==
    parsed # NotYet =>
        /\ parsed.status = "ok"
        /\ parsed.label = FieldValue(1)
        /\ DOMAIN parsed.features = {DocumentedColumn(i) : i \in 2..7}
        /\ \A i \in 2..7 : parsed.features[DocumentedColumn(i)] = FieldValue(i)
        /\ "fare_amount" \notin DOMAIN parsed.features

\* A parsed line with an empty fare_amount and hourofday, and other fields given.
C2_Witness ==
    /\ parsed # NotYet
    /\ cells[1] = <<>> /\ cells[3] = <<>>
    /\ cells[2] = <<"7">> /\ cells[7] = <<"-", "7", "3", ".", "9">>
    /\ parsed.label = Float32(0)
    /\ parsed.features["dayofweek"] = Int32(7)
    /\ parsed.features["dropofflat"] = Float32(-739)

(***************************************************************************)
(* model.py: read_dataset                                                  *)
(***************************************************************************)
\* Whether a file name matches a glob pattern (* any run, ? any character).
RECURSIVE GlobMatch(_, _)
GlobMatch(pattern, name) ==
    IF pattern = <<>> THEN name = <<>>
    ELSE IF Head(pattern) = "*"
    THEN GlobMatch(Tail(pattern), name)
         \/ (name # <<>> /\ GlobMatch(pattern, Tail(name)))
    ELSE IF Head(pattern) = "?"
    THEN name # <<>> /\ GlobMatch(Tail(pattern), Tail(name))
    ELSE name # <<>> /\ Head(name) = Head(pattern)
         /\ GlobMatch(Tail(pattern), Tail(name))

\* tf.data.Dataset.list_files: the names of the files matching the pattern.
\* The dataset yields them in an order it shuffles.
list_files(fs, file_pattern) == {n \in DOMAIN fs : GlobMatch(file_pattern, n)}

\* The orders a set of names can be yielded in.
Orders(S) == {o \in [1..Cardinality(S) -> S] : Range(o) = S}

\* tf.data.TextLineDataset: the lines of one file, in order.  Each element
\* remembers the file and line it came from.
TextLineDataset(fs, filename) ==
    [i \in 1..Len(fs[filename]) |->
        [file |-> filename, lineno |-> i, text |-> fs[filename][i]]]

\* dataset.skip(count): the elements after the first count.
Skip(ds, count) ==
    IF Len(ds) <= count THEN <<>> ELSE SubSeq(ds, count + 1, Len(ds))

\* dataset.flat_map over the file names, in the order they are yielded.
RECURSIVE FlatMapLines(_, _, _)
FlatMapLines(fs, order, count) ==
    IF order = <<>> THEN <<>>
    ELSE Skip(TextLineDataset(fs, Head(order)), count)
         \o FlatMapLines(fs, Tail(order), count)

\* dataset.map(parse_row)
MapParseRow(ds) ==
    [i \in DOMAIN ds |->
        [file |-> ds[i].file, lineno |-> ds[i].lineno, pair |-> parse_row(ds[i].text)]]

\* A bug read_dataset could have: the first line of a file is not skipped.
read_dataset_NoSkip(fs, path, order) ==
    IF order = <<>> THEN [status |-> "error", elems |-> <<>>]
    ELSE [status |-> "ok", elems |-> MapParseRow(FlatMapLines(fs, order, 0))]

\* read_dataset(csv_path), the files being yielded in the given order.
\* list_files fails when no file matches.
read_dataset(fs, path, order) ==
    IF order = <<>> THEN [status |-> "error", elems |-> <<>>]
    ELSE [status |-> "ok", elems |-> MapParseRow(FlatMapLines(fs, order, 1))]

(***************************************************************************)
(* SpecRead: read_dataset applied to file patterns over small file systems *)
(***************************************************************************)
MaxLines == 3

\* The header line (each column name kept as one piece of text).
HeaderLine == Join([i \in DOMAIN CSV_COLUMN_NAMES |-> <<CSV_COLUMN_NAMES[i]>>], ",")

DataLines ==
    {Join(<<<<"9">>, <<"7">>, <<>>, <<>>, <<>>, <<>>, <<>>>>, ","),
     Join(<<<<>>, <<"1", "2">>, <<"7">>, <<>>, <<>>, <<>>, <<>>>>, ",")}

\* A file: no line at all, or a first line (the header, or data when the file
\* was written without one) followed by data lines.
RECURSIVE DataSeqs(_)
DataSeqs(n) ==
    IF n = 0 THEN {<<>>}
    ELSE DataSeqs(n - 1)
         \cup {Append(d, l) : d \in {x \in DataSeqs(n - 1) : Len(x) = n - 1},
                              l \in DataLines}

FileContents ==
    {<<>>} \cup {<<first>> \o d : first \in {HeaderLine} \cup DataLines,
                                   d \in DataSeqs(MaxLines - 1)}

FileNames == {<<"t", "1">>, <<"t", "2">>}

FilePatterns ==
    {<<"t", "1">>, <<"t", "*">>, <<"*", "2">>, <<"t", "?">>, <<"x", "*">>}

FileSystems == UNION {[S -> FileContents] : S \in SUBSET FileNames}

InitRead ==
    /\ files \in FileSystems
    /\ csv_path \in FilePatterns
    /\ dataset = NotYet
    /\ ParseIdle /\ TaskIdle /\ TwinIdle /\ CloudIdle

ReadDataset ==
    /\ dataset = NotYet
    /\ \E order \in Orders(list_files(files, csv_path)) :
           dataset' = read_dataset(files, csv_path, order)
    /\ UNCHANGED <<files, csv_path>>

NextRead == ReadDataset /\ UNCHANGED <<parseVars, taskVars, twinVars, cloudVars>>

SpecRead == InitRead /\ [][NextRead]_vars

\* The files the pattern stands for.
Matching == {n \in DOMAIN files : GlobMatch(csv_path, n)}

\* The sum over the files S of (line count - 1).
RECURSIVE SumLinesMinusOne(_)
SumLinesMinusOne(S) ==
    IF S = {} THEN 0
    ELSE LET n == CHOOSE y \in S : TRUE
         IN  (Len(files[n]) - 1) + SumLinesMinusOne(S \ {n})

\* The sum over the files S of the number of lines after the first.
RECURSIVE SumLinesAfterFirst(_)
SumLinesAfterFirst(S) ==
    IF S = {} THEN 0
    ELSE LET n == CHOOSE y \in S : TRUE
         IN  Max(Len(files[n]) - 1, 0) + SumLinesAfterFirst(S \ {n})

\* C3 as stated: the number of pairs is the sum over the matching files of
\* (line count - 1).
C3_CountIsSumOfLinesMinusOne ==
    dataset.status = "ok" => Len(dataset.elems) = SumLinesMinusOne(Matching)

\* C3 as amended: read_dataset yields one pair for each line of each matching
\* file except that file's first line, each pair being parse_row of its line,
\* the lines of one file in their order; the number of pairs is the sum over
\* the matching files of (line count - 1), a file without any line counting 0.
C3_OnePairPerLineAfterFirst ==
    dataset.status = "ok" =>
        LET e == dataset.elems
        IN  /\ \A n \in Matching : \A k \in 2..Len(files[n]) :
                   Cardinality({i \in DOMAIN e :
                                   e[i].file = n /\ e[i].lineno = k}) = 1
            /\ \A i \in DOMAIN e :
                   /\ e[i].file \in Matching
                   /\ e[i].lineno \in 2..Len(files[e[i].file])
                   /\ e[i].pair = parse_row(files[e[i].file][e[i].lineno])
            /\ \A i, j \in DOMAIN e :
                   (i < j /\ e[i].file = e[j].file) => e[i].lineno < e[j].lineno
            /\ Len(e) = SumLinesAfterFirst(Matching)

\* Two files match, one of three lines and one without any line, and the
\* dataset was read.
C3_Witness ==
    /\ dataset.status = "ok"
    /\ Cardinality(Matching) = 2
    /\ \E n \in Matching : Len(files[n]) = 3
    /\ \E n \in Matching : Len(files[n]) = 0
    /\ Len(dataset.elems) = 2

(***************************************************************************)
(* task.py: the command line                                               *)
(***************************************************************************)
\* Python's None.
None == <<"<None>">>

\* int(text) of argparse's type = int: an optional sign and decimal digits.
PyInt(text) ==
    IF IsDigitText(Unsigned(text))
    THEN [ok |-> TRUE, val |-> Sign(text) * DigitsValue(Unsigned(text), 0)]
    ELSE [ok |-> FALSE, val |-> 0]

DefaultTrainSteps == 1000

RequiredOptions == {"--train_data_path", "--eval_data_path", "--output_dir"}

Given(av, opt) == opt \in DOMAIN av

ValueOr(av, opt, default) == IF Given(av, opt) THEN av[opt] ELSE default

\* A bug the parser could have: --train_steps has another default.
parse_args_OtherDefault(av) ==
    IF \E opt \in RequiredOptions : ~Given(av, opt) THEN Failed
    ELSE IF Given(av, "--train_steps") /\ ~PyInt(av["--train_steps"]).ok THEN Failed
    ELSE [status |-> "ok",
          args |-> [train_data_path |-> av["--train_data_path"],
                    train_steps |-> IF Given(av, "--train_steps")
                                    THEN PyInt(av["--train_steps"]).val
                                    ELSE 100,
                    eval_data_path |-> av["--eval_data_path"],
                    output_dir |-> av["--output_dir"],
                    job_dir |-> ValueOr(av, "--job-dir", None)]]

\* A bug the parser could have: --train_steps without type = int, a text that
\* is no integer taken as the default.
parse_args_NoTypeCheck(av) ==
    IF \E opt \in RequiredOptions : ~Given(av, opt) THEN Failed
    ELSE [status |-> "ok",
          args |-> [train_data_path |-> av["--train_data_path"],
                    train_steps |-> IF Given(av, "--train_steps")
                                       /\ PyInt(av["--train_steps"]).ok
                                    THEN PyInt(av["--train_steps"]).val
                                    ELSE DefaultTrainSteps,
                    eval_data_path |-> av["--eval_data_path"],
                    output_dir |-> av["--output_dir"],
                    job_dir |-> ValueOr(av, "--job-dir", None)]]

\* parser.parse_args().__dict__: an error (the process exits) when a required
\* option is missing or --train_steps is no integer.
parse_args(av) ==
    IF \E opt \in RequiredOptions : ~Given(av, opt) THEN Failed
    ELSE IF Given(av, "--train_steps") /\ ~PyInt(av["--train_steps"]).ok THEN Failed
    ELSE [status |-> "ok",
          args |-> [train_data_path |-> av["--train_data_path"],
                    train_steps |-> IF Given(av, "--train_steps")
                                    THEN PyInt(av["--train_steps"]).val
                                    ELSE DefaultTrainSteps,
                    eval_data_path |-> av["--eval_data_path"],
                    output_dir |-> av["--output_dir"],
                    job_dir |-> ValueOr(av, "--job-dir", None)]]

(***************************************************************************)
(* model.py: train_and_evaluate                                            *)
(***************************************************************************)
\* A path of Google Cloud Storage; any other path is a path of the local
\* file system.
IsGcsPath(path) == path # <<>> /\ Head(path) = "gs://"

\* Files of a model directory: checkpoints (one per global step) and exports
\* (one per run), each remembering the run that wrote it.
Checkpoint(step, run) == [kind |-> "ckpt", step |-> step, run |-> run]

Export(step, run) == [kind |-> "export", step |-> step, run |-> run]

\* The directory after a file is written: a checkpoint of the same global
\* step is replaced.
WriteFile(dir, f) ==
    {g \in dir : ~(f.kind = "ckpt" /\ g.kind = "ckpt" /\ g.step = f.step)} \cup {f}

\* The global step of the latest checkpoint of a directory, -1 without one.
LatestStep(dir) ==
    LET steps == {g.step : g \in {h \in dir : h.kind = "ckpt"}}
    IN  IF steps = {} THEN -1 ELSE CHOOSE m \in steps : \A k \in steps : k <= m

\* shutil.rmtree(path, ignore_errors = True): removes a directory of the local
\* file system.  A gs:// path names nothing there; the error is ignored.
rmtree(st, path) ==
    IF IsGcsPath(path) THEN st ELSE [st EXCEPT ![path] = {}]

MinCheckpointSteps == 10

CheckpointFraction == 10

\* RunConfig(save_checkpoints_steps = max(10, train_steps // 10))
save_checkpoints_steps(train_steps) ==
    Max(MinCheckpointSteps, train_steps \div CheckpointFraction)

NoParams ==
    [train_data_path |-> None, train_steps |-> 0, eval_data_path |-> None,
     output_dir |-> None, job_dir |-> None]

\* A run of the package before task.py starts.
NewTask(run) ==
    [status |-> "start", run |-> run, calls |-> 0, params |-> NoParams,
     OUTDIR |-> None, TRAIN_DATA_PATH |-> None, EVAL_DATA_PATH |-> None,
     TRAIN_STEPS |-> 0, global_step |-> 0, steps_run |-> 0,
     train_files |-> {}, eval_files |-> {}]

\* A bug train_and_evaluate could have: it writes to --job-dir when given.
train_and_evaluate_UsesJobDir(t, params) ==
    [t EXCEPT !.status = "called", !.calls = @ + 1, !.params = params,
              !.OUTDIR = IF params["job_dir"] # None THEN params["job_dir"]
                         ELSE params["output_dir"],
              !.TRAIN_DATA_PATH = params["train_data_path"],
              !.EVAL_DATA_PATH = params["eval_data_path"],
              !.TRAIN_STEPS = params["train_steps"]]

\* train_and_evaluate(params) up to the specs of the run: the parameters it
\* reads.
train_and_evaluate(t, params) ==
    [t EXCEPT !.status = "called", !.calls = @ + 1, !.params = params,
              !.OUTDIR = params["output_dir"],
              !.TRAIN_DATA_PATH = params["train_data_path"],
              !.EVAL_DATA_PATH = params["eval_data_path"],
              !.TRAIN_STEPS = params["train_steps"]]

\* task.py: parse the command line and call train_and_evaluate.
Main(t, av) ==
    LET parsedArgs == parse_args(av)
    IN  IF parsedArgs.status # "ok" THEN [t EXCEPT !.status = "usage_error"]
        ELSE train_and_evaluate(t, parsedArgs.args)

\* The step of a run after task.py started, with the directories st and the
\* data files fs: the run and the directories after it.
TaskStep(t, st, fs) ==
    CASE t.status = "called" ->
            \* shutil.rmtree(path = OUTDIR, ignore_errors = True)
            [task |-> [t EXCEPT !.status = "cleared"], store |-> rmtree(st, t.OUTDIR)]
      [] t.status = "cleared" ->
            \* tf.estimator.train_and_evaluate starts: it goes on from the
            \* latest checkpoint of model_dir, and does nothing when that one
            \* is at max_steps already; else it saves a first checkpoint.
            LET latest == LatestStep(st[t.OUTDIR])
                first == Max(latest, 0)
            IN  IF latest >= t.TRAIN_STEPS
                THEN [task |-> [t EXCEPT !.status = "done", !.global_step = latest],
                      store |-> st]
                ELSE [task |-> [t EXCEPT !.status = "training",
                                         !.global_step = first,
                                         !.train_files = list_files(fs, t.TRAIN_DATA_PATH)],
                      store |-> [st EXCEPT ![t.OUTDIR] =
                                    WriteFile(@, Checkpoint(first, t.run))]]
      [] t.status = "training" ->
            \* Training up to the next checkpoint, which is evaluated.
            LET next == Min(t.global_step + save_checkpoints_steps(t.TRAIN_STEPS),
                            t.TRAIN_STEPS)
            IN  [task |-> [t EXCEPT !.status = IF next = t.TRAIN_STEPS
                                               THEN "exporting" ELSE "training",
                                    !.global_step = next,
                                    !.steps_run = @ + (next - t.global_step),
                                    !.eval_files = list_files(fs, t.EVAL_DATA_PATH)],
                 store |-> [st EXCEPT ![t.OUTDIR] =
                               WriteFile(@, Checkpoint(next, t.run))]]
      [] t.status = "exporting" ->
            \* FinalExporter: the export at the end of training.
            [task |-> [t EXCEPT !.status = "done"],
             store |-> [st EXCEPT ![t.OUTDIR] =
                           WriteFile(@, Export(t.global_step, t.run))]]

Running(t) == t.status \in {"called", "cleared", "training", "exporting"}

Ended(t) == t.status \in {"done", "usage_error"}

(***************************************************************************)
(* SpecTask: one run of python -m taxifaremodel.task                       *)
(***************************************************************************)
\* The data files of the notebook's directory.
TrainFile == <<"taxi-", "train", ".csv">>

ValidFile == <<"taxi-", "valid", ".csv">>

TaskFiles ==
    [n \in {TrainFile, ValidFile} |-> <<HeaderLine>> \o
        <<Join(<<<<"9">>, <<"7">>, <<>>, <<>>, <<>>, <<>>, <<>>>>, ",")>>]

TrainPathTexts == {TrainFile, <<"taxi-", "*">>}

EvalPathTexts == {ValidFile, <<"taxi-", "*">>}

\* --output_dir of the local run and of the cloud run.
LocalOutDir == <<"taxi_trained">>

GcsOutDir == <<"gs://", "BUCKET", "/taxifare/trained_small">>

OutDirs == {LocalOutDir, GcsOutDir}

\* --job-dir of the cloud run, and another value.
GcsJobDir == <<"gs://", "BUCKET", "/taxifare">>

JobDirTexts == {GcsJobDir, LocalOutDir}

\* --train_steps: 1 (the local run), 25, and texts that are no integer.
TrainStepsTexts == {<<"1">>, <<"2", "5">>, <<"x">>, <<"1", ".", "5">>}

\* What an earlier run (run 0) may have left in a directory.
PriorSteps == {1, 1000}

PriorContents ==
    {{}} \cup {{Checkpoint(k, 0), Export(k, 0)} : k \in PriorSteps}

Directories == OutDirs \cup JobDirTexts

\* Command lines: every option given or not.
OptionTexts(opt) ==
    CASE opt = "--train_data_path" -> TrainPathTexts
      [] opt = "--train_steps" -> TrainStepsTexts
      [] opt = "--eval_data_path" -> EvalPathTexts
      [] opt = "--output_dir" -> OutDirs
      [] opt = "--job-dir" -> JobDirTexts

Options ==
    {"--train_data_path", "--train_steps", "--eval_data_path", "--output_dir",
     "--job-dir"}

CommandLines ==
    UNION {{av \in [S -> UNION {OptionTexts(o) : o \in S}] :
               \A o \in S : av[o] \in OptionTexts(o)} : S \in SUBSET Options}

DataAtHand == files = TaskFiles /\ csv_path = <<>> /\ dataset = NotYet

PriorStores ==
    {[d \in Directories |->
         IF d = LocalOutDir THEN local ELSE IF d = GcsOutDir THEN gcs ELSE {}] :
        local \in PriorContents, gcs \in PriorContents}

InitTask ==
    /\ argv \in CommandLines
    /\ store \in PriorStores
    /\ task = NewTask(1)
    /\ DataAtHand
    /\ ParseIdle /\ TwinIdle /\ CloudIdle

\* python -m taxifaremodel.task: the command line is parsed and
\* train_and_evaluate is called with the arguments.
RunMain ==
    /\ task.status = "start"
    /\ task' = Main(task, argv)
    /\ UNCHANGED <<argv, store, parseVars, readVars, twinVars, cloudVars>>

\* The run goes on: the directory is removed, then training, then the export.
RunStep ==
    /\ Running(task)
    /\ LET after == TaskStep(task, store, files)
       IN  task' = after.task /\ store' = after.store
    /\ UNCHANGED <<argv, parseVars, readVars, twinVars, cloudVars>>

NextTask == RunMain \/ RunStep

SpecTask == InitTask /\ [][NextTask]_vars

\* C1 as stated: the output directory is empty when training starts, and when
\* the run has finished it holds only files written by that run.
C1_OutputDirHoldsOnlyThisRun ==
    /\ task.status = "cleared" => store[task.OUTDIR] = {}
    /\ task.status = "done" => \A f \in store[task.OUTDIR] : f.run = task.run

RequiredGiven == \A opt \in RequiredOptions : Given(argv, opt)

TrainStepsOmittedOrInteger ==
    Given(argv, "--train_steps") => IsDigitText(argv["--train_steps"])

\* C4: with the three required options given (and --train_steps an integer or
\* omitted), once task.py has run train_and_evaluate was called exactly once,
\* with the paths and the output directory of the command line and with the
\* integer given as --train_steps, or 1000.
C4_CalledOnceWithCommandLine ==
    (task.status # "start" /\ RequiredGiven /\ TrainStepsOmittedOrInteger) =>
        /\ task.calls = 1
        /\ task.params["train_data_path"] = argv["--train_data_path"]
        /\ task.params["eval_data_path"] = argv["--eval_data_path"]
        /\ task.params["output_dir"] = argv["--output_dir"]
        /\ task.params["train_steps"] =
               IF Given(argv, "--train_steps")
               THEN DigitsValue(argv["--train_steps"], 0) ELSE 1000

\* A finished run that was given --train_steps=25, and one that was not given
\* --train_steps and trained to step 1000.
C4_Witness ==
    /\ task.status = "done" /\ task.calls = 1
    /\ ~Given(argv, "--train_steps") /\ ~Given(argv, "--job-dir")
    /\ argv["--output_dir"] = LocalOutDir
    /\ task.params["train_steps"] = 1000 /\ task.global_step = 1000

\* The command line lacks a required option, or gives a --train_steps that is
\* not an integer.
BadCommandLine ==
    \/ ~RequiredGiven
    \/ Given(argv, "--train_steps") /\ ~IsDigitText(argv["--train_steps"])

\* C11: with a required option missing or a --train_steps that is no integer,
\* task.py goes from its start to the usage error and nowhere else,
\* train_and_evaluate is never called, and no step of the run changes any
\* directory (the output directory is not cleared).
C11_BadCommandLineEndsInError ==
    /\ [](BadCommandLine =>
              /\ task.status \in {"start", "usage_error"}
              /\ task.calls = 0)
    /\ [][BadCommandLine => store' = store]_vars

\* Ended in the usage error: --train_steps=1.5 with the local output directory
\* holding an earlier run's files, still there.
C11_Witness ==
    /\ task.status = "usage_error" /\ task.calls = 0
    /\ RequiredGiven
    /\ Given(argv, "--train_steps") /\ argv["--train_steps"] = <<"1", ".", "5">>
    /\ argv["--output_dir"] = LocalOutDir
    /\ Export(1000, 0) \in store[LocalOutDir]

(***************************************************************************)
(* SpecJobDir: two runs that differ in --job-dir only                      *)
(***************************************************************************)
SameButJobDir(av, bv) ==
    /\ DOMAIN av \ {"--job-dir"} = DOMAIN bv \ {"--job-dir"}
    /\ \A opt \in DOMAIN av \ {"--job-dir"} : av[opt] = bv[opt]
    /\ Given(av, "--job-dir") # Given(bv, "--job-dir")
       \/ (Given(av, "--job-dir") /\ av["--job-dir"] # bv["--job-dir"])

InitJobDir ==
    /\ argv \in CommandLines
    /\ argvB \in {bv \in CommandLines : SameButJobDir(argv, bv)}
    /\ store \in PriorStores
    /\ storeB = store
    /\ task = NewTask(1)
    /\ taskB = NewTask(1)
    /\ DataAtHand
    /\ ParseIdle /\ CloudIdle

\* Both runs start.
TwinMain ==
    /\ task.status = "start" /\ taskB.status = "start"
    /\ task' = Main(task, argv)
    /\ taskB' = Main(taskB, argvB)
    /\ UNCHANGED <<argv, argvB, store, storeB, parseVars, readVars, cloudVars>>

\* Both runs take their next step (a run that has ended stays as it is).
TwinStep ==
    /\ Running(task) \/ Running(taskB)
    /\ IF Running(task)
       THEN LET after == TaskStep(task, store, files)
            IN  task' = after.task /\ store' = after.store
       ELSE UNCHANGED <<task, store>>
    /\ IF Running(taskB)
       THEN LET after == TaskStep(taskB, storeB, files)
            IN  taskB' = after.task /\ storeB' = after.store
       ELSE UNCHANGED <<taskB, storeB>>
    /\ UNCHANGED <<argv, argvB, parseVars, readVars, cloudVars>>

NextJobDir == TwinMain \/ TwinStep

SpecJobDir == InitJobDir /\ [][NextJobDir]_vars

\* C10: two runs that differ only in --job-dir read the same data, run the
\* same number of steps and write the same files to the same output
\* directory, at every step of the way.
C10_JobDirNotUsed ==
    /\ task.status = taskB.status
    /\ task.calls = taskB.calls
    /\ task.OUTDIR = taskB.OUTDIR
    /\ task.train_files = taskB.train_files
    /\ task.eval_files = taskB.eval_files
    /\ task.TRAIN_STEPS = taskB.TRAIN_STEPS
    /\ task.global_step = taskB.global_step
    /\ task.steps_run = taskB.steps_run
    /\ store = storeB

\* Two finished runs, one given --job-dir and one not, that trained and
\* wrote to the cloud output directory.
C10_Witness ==
    /\ task.status = "done" /\ taskB.status = "done"
    /\ Given(argv, "--job-dir") /\ ~Given(argvB, "--job-dir")
    /\ task.params["job_dir"] = LocalOutDir /\ taskB.params["job_dir"] = None
    /\ task.OUTDIR = GcsOutDir
    /\ task.steps_run = 25
    /\ task.train_files = {TrainFile, ValidFile}
    /\ Export(25, 1) \in store[GcsOutDir]

(***************************************************************************)
(* The upload cell: gcloud config set project; gsutil mb; gsutil -m cp     *)
(***************************************************************************)
NoError == "none"

BucketExistsError == "ServiceException: 409 Bucket already exists"

NoUrlsMatchedError == "CommandException: No URLs matched"

\* gsutil mb gs://BUCKET: creates the bucket, or fails when it exists.
gsutil_mb(b) ==
    IF b.exists THEN [bucket |-> b, error |-> BucketExistsError]
    ELSE [bucket |-> [exists |-> TRUE, objects |-> <<>>], error |-> NoError]

\* gs://BUCKET/taxifare/smallinput/<name>
SmallInputObject(name) == <<"taxifare/smallinput/">> \o name

\* gsutil -m cp <pattern> gs://BUCKET/taxifare/smallinput/: every local file
\* matching the pattern is written to the bucket, over an object of the same
\* name.
gsutil_cp(b, loc, pattern) ==
    LET matched == {n \in DOMAIN loc : GlobMatch(pattern, n)}
        written == {SmallInputObject(n) : n \in matched}
        source(o) == CHOOSE n \in matched : SmallInputObject(n) = o
    IN  IF matched = {} \/ ~b.exists
        THEN [bucket |-> b, error |-> NoUrlsMatchedError]
        ELSE [bucket |-> [b EXCEPT !.objects =
                             [o \in DOMAIN b.objects \cup written |->
                                 IF o \in written THEN loc[source(o)]
                                 ELSE b.objects[o]]],
              error |-> NoError]

CsvGlob == <<"*", ".csv">>

Printed(errors, e) == IF e = NoError THEN errors ELSE Append(errors, e)

\* A bug the cell could have: it stops at the first command that fails.
UploadCellStep_StopsOnError(u, b, loc) ==
    CASE u.at = "config" ->
            [upload |-> [u EXCEPT !.at = "mb", !.ran = Append(@, "config")],
             bucket |-> b]
      [] u.at = "mb" ->
            LET r == gsutil_mb(b)
            IN  [upload |-> [u EXCEPT !.at = IF r.error = NoError THEN "cp" ELSE "done",
                                      !.ran = Append(@, "mb"),
                                      !.errors = Printed(@, r.error)],
                 bucket |-> r.bucket]
      [] u.at = "cp" ->
            LET r == gsutil_cp(b, loc, CsvGlob)
            IN  [upload |-> [u EXCEPT !.at = "done", !.ran = Append(@, "cp"),
                                      !.errors = Printed(@, r.error)],
                 bucket |-> r.bucket]

\* The next command of the cell.  Each line is a shell command of its own: an
\* error is printed and the next line runs.
UploadCellStep(u, b, loc) ==
    CASE u.at = "config" ->
            [upload |-> [u EXCEPT !.at = "mb", !.ran = Append(@, "config")],
             bucket |-> b]
      [] u.at = "mb" ->
            LET r == gsutil_mb(b)
            IN  [upload |-> [u EXCEPT !.at = "cp", !.ran = Append(@, "mb"),
                                      !.errors = Printed(@, r.error)],
                 bucket |-> r.bucket]
      [] u.at = "cp" ->
            LET r == gsutil_cp(b, loc, CsvGlob)
            IN  [upload |-> [u EXCEPT !.at = "done", !.ran = Append(@, "cp"),
                                      !.errors = Printed(@, r.error)],
                 bucket |-> r.bucket]

\* The cell when it is started: existed remembers whether the bucket was there.
UploadCellStart(b) ==
    [at |-> "config", ran |-> <<>>, errors |-> <<>>, existed |-> b.exists]

(***************************************************************************)
(* SpecUpload                                                              *)
(***************************************************************************)
JsonFile == <<"test", ".json">>

LocalNames == {TrainFile, ValidFile, JsonFile}

\* What a file or an object holds.
Contents == {"a", "b"}

LocalDirectories == UNION {[S -> Contents] : S \in SUBSET LocalNames}

\* The bucket before the cell: absent, or there with objects of an earlier
\* upload.
PriorBuckets ==
    {[exists |-> FALSE, objects |-> <<>>]}
    \cup {[exists |-> TRUE, objects |-> o] :
             o \in UNION {[T -> Contents] :
                             T \in SUBSET {SmallInputObject(TrainFile),
                                           SmallInputObject(JsonFile)}}}

InitUpload ==
    /\ localFiles \in LocalDirectories
    /\ bucket \in PriorBuckets
    /\ upload = UploadCellStart(bucket)
    /\ ParseIdle /\ ReadIdle /\ TaskIdle /\ TwinIdle
    /\ NameIdle /\ SubmitIdle /\ DeployIdle

\* The next command of the upload cell runs.
UploadCommand ==
    /\ upload.at # "done"
    /\ LET after == UploadCellStep(upload, bucket, localFiles)
       IN  upload' = after.upload /\ bucket' = after.bucket
    /\ UNCHANGED <<localFiles, parseVars, readVars, taskVars, twinVars,
                   nameVars, submitVars, deployVars>>

\* The cell is executed again.
UploadAgain ==
    /\ upload.at = "done"
    /\ upload' = UploadCellStart(bucket)
    /\ UNCHANGED <<localFiles, bucket, parseVars, readVars, taskVars, twinVars,
                   nameVars, submitVars, deployVars>>

NextUpload == UploadCommand \/ UploadAgain

SpecUpload == InitUpload /\ [][NextUpload]_vars

LocalCsvFiles == {n \in DOMAIN localFiles : n[Len(n)] = ".csv"}

\* C9: when the bucket is there already, gsutil mb prints the service's error
\* and nothing else happens: the copy still runs, and after the cell every
\* local CSV file is in the bucket under taxifare/smallinput/, with the local
\* content, whether or not the bucket existed before.
C9_CopyRunsAfterBucketExists ==
    upload.at = "done" =>
        /\ upload.ran = <<"config", "mb", "cp">>
        /\ upload.existed <=> (\E i \in DOMAIN upload.errors :
                                  upload.errors[i] = BucketExistsError)
        /\ bucket.exists
        /\ \A n \in LocalCsvFiles :
               /\ SmallInputObject(n) \in DOMAIN bucket.objects
               /\ bucket.objects[SmallInputObject(n)] = localFiles[n]

\* The cell has ended, the bucket was there before with another taxi-train.csv,
\* and the local file is in the bucket now; test.json was not copied.
C9_Witness ==
    /\ upload.at = "done" /\ upload.existed
    /\ upload.errors = <<BucketExistsError>>
    /\ TrainFile \in DOMAIN localFiles /\ localFiles[TrainFile] = "a"
    /\ JsonFile \in DOMAIN localFiles
    /\ bucket.objects[SmallInputObject(TrainFile)] = "a"
    /\ SmallInputObject(JsonFile) \notin DOMAIN bucket.objects
    /\ SmallInputObject(ValidFile) \in DOMAIN bucket.objects

(***************************************************************************)
(* The job name of the submit cell: taxifare_$(date -u +%y%m%d_%H%M%S)     *)
(***************************************************************************)
\* %y writes the year without the century.
YearsPerCentury == 100

\* A time is a year, the second of that year (which month, day, hour, minute
\* and second together name) and the part of the second that has passed.
\* date -u +%y%m%d_%H%M%S writes the two-digit year and the second of the year.
date_u(t) == [yy |-> t.year % YearsPerCentury, mdHMS |-> t.second]

\* A bug the name could have: no time in it.
JobName_NoTime(t) == <<"taxifare_">>

JobName(t) == <<"taxifare_", date_u(t)>>

\* Whether the time u is later than the time t.
Later(t, u) ==
    \/ u.year > t.year
    \/ u.year = t.year /\ u.second > t.second
    \/ u.year = t.year /\ u.second = t.second /\ u.part > t.part

(***************************************************************************)
(* SpecJobName                                                             *)
(***************************************************************************)
\* The year of the notebook's run, the year after, and the year a century on.
FirstYear == 2019

Years == {FirstYear, FirstYear + 1, FirstYear + YearsPerCentury}

MaxSecond == 1

MaxPart == 1

MaxSubmissions == 3

Times == [year : Years, second : 0..MaxSecond, part : 0..MaxPart]

InitJobName ==
    /\ clock = [year |-> FirstYear, second |-> 0, part |-> 0]
    /\ submissions = <<>>
    /\ ParseIdle /\ ReadIdle /\ TaskIdle /\ TwinIdle
    /\ UploadIdle /\ SubmitIdle /\ DeployIdle

\* Time passes.
TimePasses ==
    /\ \E u \in Times : Later(clock, u) /\ clock' = u
    /\ UNCHANGED <<submissions, parseVars, readVars, taskVars, twinVars,
                   uploadVars, submitVars, deployVars>>

\* The submit cell is executed: the job is named after the time.  The
\* execution takes time.
SubmitNamedJob ==
    /\ Len(submissions) < MaxSubmissions
    /\ submissions' = Append(submissions, [time |-> clock, name |-> JobName(clock)])
    /\ \E u \in Times : Later(clock, u) /\ clock' = u
    /\ UNCHANGED <<parseVars, readVars, taskVars, twinVars, uploadVars,
                   submitVars, deployVars>>

NextJobName == TimePasses \/ SubmitNamedJob

SpecJobName == InitJobName /\ [][NextJobName]_vars

SameSecond(t, u) == t.year = u.year /\ t.second = u.second

WholeCenturiesApart(t, u) ==
    t.year # u.year /\ t.second = u.second
    /\ (t.year - u.year) % 100 = 0

gsutil_rm(st, path) == [st EXCEPT ![path] = {}]

SmallInputPath(name) == <<"gs://", "BUCKET", "/taxifare/smallinput/">> \o name

\* The arguments after -- of the submit cell, and the --job-dir gcloud hands on.
CloudArgv ==
    [opt \in Options |->
        CASE opt = "--train_data_path" -> SmallInputPath(TrainFile)
          [] opt = "--train_steps" -> <<"1", "0", "0", "0">>
          [] opt = "--eval_data_path" -> SmallInputPath(ValidFile)
          [] opt = "--output_dir" -> GcsOutDir
          [] opt = "--job-dir" -> GcsJobDir]

\* The data files in the bucket.
CloudFiles ==
    [n \in {SmallInputPath(TrainFile), SmallInputPath(ValidFile)} |->
        TaskFiles[TrainFile]]

\* A job of the training service runs python -m taxifaremodel.task with the
\* cell's arguments: its next step, on the directories st.
JobStep(t, st, fs) ==
    IF t.status = "start" THEN [task |-> Main(t, CloudArgv), store |-> st]
    ELSE TaskStep(t, st, fs)

Unfinished(js) == {j \in DOMAIN js : ~Ended(js[j].task)}

\* A bug the cell could have: the job is submitted without removing OUTDIR.
SubmitCellStep_NoRm(c, js, st) ==
    CASE c.at = "idle" ->
            [submit |-> [at |-> "rm_done", quiet |-> Unfinished(js) = {}],
             jobs |-> [j \in DOMAIN js |->
                          [js[j] EXCEPT !.alone = @ /\ Ended(js[j].task)]],
             store |-> st]
      [] c.at = "rm_done" ->
            [submit |-> [c EXCEPT !.at = "idle"],
             jobs |-> Append(js, [task |-> NewTask(Len(js) + 1), alone |-> c.quiet]),
             store |-> st]

\* The next command of the submit cell.  quiet remembers whether every earlier
\* job had ended when OUTDIR was removed; a job is alone when it was submitted
\* by such an execution and the cell was not executed again before it ended.
SubmitCellStep(c, js, st) ==
    CASE c.at = "idle" ->
            [submit |-> [at |-> "rm_done", quiet |-> Unfinished(js) = {}],
             jobs |-> [j \in DOMAIN js |->
                          [js[j] EXCEPT !.alone = @ /\ Ended(js[j].task)]],
             store |-> gsutil_rm(st, GcsOutDir)]
      [] c.at = "rm_done" ->
            [submit |-> [c EXCEPT !.at = "idle"],
             jobs |-> Append(js, [task |-> NewTask(Len(js) + 1), alone |-> c.quiet]),
             store |-> st]

(***************************************************************************)
(* SpecSubmit                                                              *)
(***************************************************************************)
MaxJobs == 2

InitSubmit ==
    /\ submit = [at |-> "idle", quiet |-> TRUE]
    /\ jobs = <<>>
    /\ \E prior \in PriorContents :
           store = [d \in Directories |-> IF d = GcsOutDir THEN prior ELSE {}]
    /\ argv = CloudArgv /\ task = NotYet
    /\ files = CloudFiles /\ csv_path = <<>> /\ dataset = NotYet
    /\ ParseIdle /\ TwinIdle /\ UploadIdle /\ NameIdle /\ DeployIdle

\* The next command of the submit cell runs.
SubmitCommand ==
    /\ submit.at = "rm_done" \/ Len(jobs) < MaxJobs
    /\ LET after == SubmitCellStep(submit, jobs, store)
       IN  submit' = after.submit /\ jobs' = after.jobs /\ store' = after.store
    /\ UNCHANGED <<argv, task, parseVars, readVars, twinVars, uploadVars,
                   nameVars, deployVars>>

\* A job of the training service takes its next step.
JobRuns ==
    /\ \E j \in Unfinished(jobs) :
           LET after == JobStep(jobs[j].task, store, files)
           IN  /\ jobs' = [jobs EXCEPT ![j].task = after.task]
               /\ store' = after.store
    /\ UNCHANGED <<submit, argv, task, parseVars, readVars, twinVars,
                   uploadVars, nameVars, deployVars>>

NextSubmit == SubmitCommand \/ JobRuns

SpecSubmit == InitSubmit /\ [][NextSubmit]_vars

\* The job of the latest execution of the cell has finished and the cell is
\* not being executed.
LatestJobFinished ==
    /\ jobs # <<>>
    /\ jobs[Len(jobs)].task.status = "done"
    /\ submit.at = "idle"

\* C8 as stated: once the job submitted by an execution of the cell has
\* finished, OUTDIR holds only files written by that job, whatever the
\* executions before.
C8_OutDirHoldsOnlyLatestJob ==
    LatestJobFinished =>
        \A f \in store[GcsOutDir] : f.run = Len(jobs)

\* C8 as amended: OUTDIR is removed before the job is submitted; when no
\* earlier job was still running at that execution of the cell, and the cell
\* is not executed again before the job has finished, then OUTDIR holds, once
\* the job has finished, the checkpoints and the export written by that job
\* and nothing else.
C8_OutDirHoldsOnlyLatestJobAlone ==
    /\ submit.at = "rm_done" /\ submit.quiet => store[GcsOutDir] = {}
    /\ (LatestJobFinished /\ jobs[Len(jobs)].alone) =>
           /\ \A f \in store[GcsOutDir] : f.run = Len(jobs)
           /\ Export(1000, Len(jobs)) \in store[GcsOutDir]
           /\ Checkpoint(1000, Len(jobs)) \in store[GcsOutDir]

\* The second execution of the cell came after the first job had finished, in
\* a directory an earlier run had written to; its job has finished.
C8_Witness ==
    /\ Len(jobs) = 2 /\ LatestJobFinished
    /\ jobs[1].alone /\ jobs[2].alone
    /\ Export(1000, 2) \in store[GcsOutDir]

(***************************************************************************)
(* The deploy cell, the prediction service and the predict cell            *)
(***************************************************************************)
\* The text of a natural number in decimal.
RECURSIVE Decimal(_)
Decimal(n) ==
    IF n < 10 THEN <<Digits[n + 1]>>
    ELSE Append(Decimal(n \div 10), Digits[(n % 10) + 1])

\* The order gsutil ls lists names in: character by character, a name before
\* the names it is the beginning of.
RECURSIVE LexLess(_, _)
LexLess(a, b) ==
    IF a = <<>> THEN b # <<>>
    ELSE IF b = <<>> THEN FALSE
    ELSE IF Head(a) # Head(b) THEN DigitVal(Head(a)) < DigitVal(Head(b))
    ELSE LexLess(Tail(a), Tail(b))

RECURSIVE SortedTexts(_)
SortedTexts(S) ==
    IF S = {} THEN <<>>
    ELSE LET least == CHOOSE a \in S : \A b \in S \ {a} : LexLess(a, b)
         IN  <<least>> \o SortedTexts(S \ {least})

\* An export of a training run is a directory named by the second (since
\* 1970) it was written at.
ExporterDir == <<"gs://", "BUCKET", "/taxifare/trained_small/export/exporter/">>

ExportPath(stamp) == ExporterDir \o Decimal(stamp) \o <<"/">>

\* gsutil ls gs://BUCKET/taxifare/trained_small/export/exporter: a line per
\* export, in the order of the names; no line when there is none.
gsutil_ls(ex) ==
    LET names == SortedTexts({Decimal(stamp) : stamp \in ex})
    IN  [i \in DOMAIN names |-> ExporterDir \o names[i] \o <<"/">>]

\* A bug the cell could have: head -1 in the place of tail -1.
tail_1_Head(lines) == IF lines = <<>> THEN <<>> ELSE lines[1]

\* tail -1: the last line; nothing of no lines.
tail_1(lines) == IF lines = <<>> THEN <<>> ELSE lines[Len(lines)]

VERSION == "v1"

NoVersion == "<none>"

ModelExistsError == "ALREADY_EXISTS: a model with the same name already exists"

NotFoundError == "NOT_FOUND"

DefaultInUseError == "FAILED_PRECONDITION: the default version cannot be deleted while other versions exist"

VersionExistsError == "ALREADY_EXISTS: a version with the same name already exists"

NoOriginError == "argument --origin: expected one argument"

\* The service without model taxifare.
NoModel == [status |-> "up", model |-> FALSE, versions |-> {}, default |-> NoVersion]

Named(s, name) == {v \in s.versions : v.name = name}

\* gcloud ml-engine models create taxifare
models_create(s) ==
    IF s.model THEN [service |-> s, error |-> ModelExistsError]
    ELSE [service |-> [s EXCEPT !.model = TRUE], error |-> NoError]

\* gcloud ml-engine versions delete <name> --model taxifare --quiet
versions_delete(s, name) ==
    IF ~s.model \/ Named(s, name) = {}
    THEN [service |-> s, error |-> NotFoundError]
    ELSE IF s.default = name /\ s.versions # Named(s, name)
    THEN [service |-> s, error |-> DefaultInUseError]
    ELSE [service |-> [s EXCEPT !.versions = @ \ Named(s, name),
                                !.default = IF @ = name THEN NoVersion ELSE @],
          error |-> NoError]

\* A bug the service could have: a created version is never the default.
versions_create_NotDefault(s, name, origin, by) ==
    IF origin = <<>> THEN [service |-> s, error |-> NoOriginError]
    ELSE IF ~s.model THEN [service |-> s, error |-> NotFoundError]
    ELSE IF Named(s, name) # {} THEN [service |-> s, error |-> VersionExistsError]
    ELSE [service |-> [s EXCEPT !.versions =
                           @ \cup {[name |-> name, origin |-> origin, by |-> by]}],
          error |-> NoError]

\* gcloud ml-engine versions create <name> --model taxifare --origin <origin>,
\* in the execution by of the cell: the only version of a model is its default.
versions_create(s, name, origin, by) ==
    IF origin = <<>> THEN [service |-> s, error |-> NoOriginError]
    ELSE IF ~s.model THEN [service |-> s, error |-> NotFoundError]
    ELSE IF Named(s, name) # {} THEN [service |-> s, error |-> VersionExistsError]
    ELSE [service |-> [s EXCEPT !.versions =
                           @ \cup {[name |-> name, origin |-> origin, by |-> by]},
                                !.default = IF s.versions = {} THEN name ELSE @],
          error |-> NoError]

\* gcloud ml-engine predict --model=taxifare (no --version), and the Python
\* client with parent projects/<PROJECT>/models/taxifare: the default version
\* answers.
predict(s) ==
    IF ~s.model \/ s.default = NoVersion
    THEN [status |-> "error", version |-> NotYet]
    ELSE [status |-> "ok",
          version |-> CHOOSE v \in s.versions : v.name = s.default]

\* The cell before its first execution.
DeployCellStart == [at |-> "idle", runs |-> 0, errors |-> <<>>, seen |-> {}]

\* The next command of the deploy cell, with the service s and the exports ex.
\* errors holds what the commands of the execution printed, seen the exports
\* listed for --origin.
DeployCellStep(c, s, ex) ==
    CASE c.at = "idle" ->
            LET r == models_create(s)
            IN  [deploy |-> [c EXCEPT !.at = "versions_delete",
                                      !.errors = <<r.error>>],
                 service |-> r.service]
      [] c.at = "versions_delete" ->
            LET r == versions_delete(s, VERSION)
            IN  [deploy |-> [c EXCEPT !.at = "versions_create",
                                      !.errors = Append(@, r.error)],
                 service |-> r.service]
      [] c.at = "versions_create" ->
            LET r == versions_create(s, VERSION, tail_1(gsutil_ls(ex)), c.runs + 1)
            IN  [deploy |-> [c EXCEPT !.at = "idle", !.runs = @ + 1,
                                      !.errors = Append(@, r.error),
                                      !.seen = ex],
                 service |-> r.service]

(***************************************************************************)
(* SpecDeploy                                                              *)
(***************************************************************************)
\* The second the notebook's job was submitted at (2019-04-03 03:40:23 UTC);
\* its exports are written later.
JobSubmitted == 1554262823

MaxExports == 3

MaxDeploys == 2

Stamps == (JobSubmitted + 1) .. (JobSubmitted + MaxExports)

\* The states an earlier execution of the notebook leaves the service in:
\* no model, a model without version, a model with version v1.
PriorServices ==
    {NoModel,
     [NoModel EXCEPT !.model = TRUE],
     [NoModel EXCEPT !.model = TRUE,
                     !.versions = {[name |-> VERSION,
                                    origin |-> ExportPath(JobSubmitted),
                                    by |-> 0]},
                     !.default = VERSION]}

InitDeploy ==
    /\ exported \in SUBSET Stamps
    /\ service \in PriorServices
    /\ deploy = DeployCellStart
    /\ answer = NotYet
    /\ instance = NotYet /\ reply = NotYet
    /\ ParseIdle /\ ReadIdle /\ TaskIdle /\ TwinIdle
    /\ UploadIdle /\ NameIdle /\ SubmitIdle

\* The next command of the deploy cell runs.
DeployCommand ==
    /\ deploy.at # "idle" \/ deploy.runs < MaxDeploys
    /\ LET after == DeployCellStep(deploy, service, exported)
       IN  deploy' = after.deploy /\ service' = after.service
    /\ UNCHANGED <<exported, answer, instance, reply, parseVars, readVars, taskVars, twinVars,
                   uploadVars, nameVars, submitVars>>

\* A predict call without a version: answer remembers where the deploy cell
\* was, and whether the versions create of its last execution succeeded.
Predict ==
    /\ LET r == predict(service)
       IN  answer' = [status |-> r.status, version |-> r.version,
                      at |-> deploy.at, runs |-> deploy.runs,
                      created |-> /\ Len(deploy.errors) = 3
                                  /\ deploy.errors[3] = NoError]
    /\ UNCHANGED <<exported, service, deploy, instance, reply, parseVars, readVars, taskVars,
                   twinVars, uploadVars, nameVars, submitVars>>

\* A training job writes its export, later than the exports there are.
JobExports ==
    /\ \E stamp \in Stamps :
           /\ \A e \in exported : e < stamp
           /\ exported' = exported \cup {stamp}
    /\ UNCHANGED <<service, deploy, answer, instance, reply, parseVars, readVars, taskVars,
                   twinVars, uploadVars, nameVars, submitVars>>

\* The submit cell is executed again: gsutil -m rm -rf OUTDIR removes the
\* exports with the rest of OUTDIR.
OutDirRemoved ==
    /\ exported # {}
    /\ exported' = {}
    /\ UNCHANGED <<service, deploy, answer, instance, reply, parseVars, readVars, taskVars,
                   twinVars, uploadVars, nameVars, submitVars>>

NextDeploy == DeployCommand \/ Predict \/ JobExports \/ OutDirRemoved

SpecDeploy == InitDeploy /\ [][NextDeploy]_vars

MostRecent(ex) == CHOOSE m \in ex : \A k \in ex : k <= m

DeployCellDone == deploy.at = "idle" /\ deploy.runs >= 1

\* C5: whatever state the service was in before (no model, a model, a model
\* with v1), after the three commands of the deploy cell model taxifare
\* exists, the only error models create can have printed is that the model
\* exists already, and, an export being listed, version v1 is the one this
\* execution created from the most recent export listed; with no export
\* listed no version is created.
C5_DeployFromAnyPriorState ==
    DeployCellDone =>
        /\ service.model
        /\ deploy.errors[1] \in {NoError, ModelExistsError}
        /\ deploy.errors[2] \in {NoError, NotFoundError}
        /\ deploy.seen # {} =>
               /\ deploy.errors[3] = NoError
               /\ Named(service, VERSION) =
                      {[name |-> VERSION,
                        origin |-> ExportPath(MostRecent(deploy.seen)),
                        by |-> deploy.runs]}
        /\ deploy.seen = {} => Named(service, VERSION) = {}

\* The cell was executed on a service that had the model and v1 already, with
\* more than one export listed: v1 is the one of this execution.
C5_Witness ==
    /\ DeployCellDone /\ deploy.runs = 1
    /\ deploy.errors = <<ModelExistsError, NoError, NoError>>
    /\ Cardinality(deploy.seen) >= 2
    /\ \E v \in service.versions :
           v.by = 1 /\ v.origin = ExportPath(MostRecent(deploy.seen))

\* C6: after an execution of the deploy cell whose versions create succeeded,
\* v1 of that execution is the only version and the default, and a predict
\* call without version issued then is answered by it.
C6_UnversionedPredictServedByV1 ==
    /\ (DeployCellDone /\ deploy.errors[3] = NoError) =>
           /\ Cardinality(service.versions) = 1
           /\ service.default = VERSION
           /\ \A v \in service.versions :
                  v.name = VERSION /\ v.by = deploy.runs
    /\ (answer # NotYet /\ answer.at = "idle" /\ answer.runs >= 1
            /\ answer.created) =>
           /\ answer.status = "ok"
           /\ answer.version.name = VERSION
           /\ answer.version.by = answer.runs

\* A predict call after the second execution of the deploy cell, answered by
\* the v1 of that execution.
C6_Witness ==
    /\ answer # NotYet /\ answer.status = "ok"
    /\ answer.at = "idle" /\ answer.runs = 2 /\ answer.created
    /\ answer.version.by = 2
    /\ deploy.runs = 2

(***************************************************************************)
(* model.py: serving_input_receiver_fn and the feature columns             *)
(***************************************************************************)
\* tf.placeholder(dtype = ..., shape = [None]): an input of that type.
placeholder(dtype) == dtype

\* A bug serving_input_receiver_fn could have: every input a float32.
serving_input_receiver_fn_AllFloat ==
    LET receiver_tensors ==
            [k \in {"dayofweek", "hourofday", "pickuplon", "pickuplat",
                    "dropofflat", "dropofflon"} |-> placeholder("float32")]
    IN  [features |-> receiver_tensors, receiver_tensors |-> receiver_tensors]

\* serving_input_receiver_fn(): the inputs of the exported model by name, and
\* the features handed to the model, which are the same dict.
serving_input_receiver_fn ==
    LET receiver_tensors ==
            ("dayofweek" :> placeholder("int32")) @@
            ("hourofday" :> placeholder("int32")) @@
            ("pickuplon" :> placeholder("float32")) @@
            ("pickuplat" :> placeholder("float32")) @@
            ("dropofflat" :> placeholder("float32")) @@
            ("dropofflon" :> placeholder("float32"))
    IN  [features |-> receiver_tensors, receiver_tensors |-> receiver_tensors]

\* tf.feature_column.numeric_column(key = k): a float32 column read from the
\* feature k.
numeric_column(k) == [key |-> k, dtype |-> "float32"]

\* create_model: [numeric_column(key = k) for k in FEATURE_NAMES]
feature_cols == [i \in DOMAIN FEATURE_NAMES |-> numeric_column(FEATURE_NAMES[i])]

\* The values of a JSON instance: an integer, a number that is no integer, a
\* string.
JsonInt == [kind |-> "int", tenths |-> 10]

JsonReal == [kind |-> "real", tenths |-> 407]

JsonString == [kind |-> "string", tenths |-> 0]

\* A JSON value fed to an input: an int32 input takes integers, a float32
\* input takes numbers.
feed(dtype, v) ==
    CASE dtype = "int32" ->
            IF v.kind = "int" THEN Int32(v.tenths \div 10) ELSE Error
      [] dtype = "float32" ->
            IF v.kind \in {"int", "real"} THEN Float32(v.tenths) ELSE Error

Rejected(why) == [status |-> "error", why |-> why, inputs |-> <<>>]

\* A prediction request with one instance (key -> JSON value) on the exported
\* model: the keys are the names of the inputs, the values are fed to them,
\* and each feature column reads its feature.
serve(sir, cols, inst) ==
    IF DOMAIN inst # DOMAIN sir.receiver_tensors THEN Rejected("names")
    ELSE LET fed == [k \in DOMAIN inst |-> feed(sir.receiver_tensors[k], inst[k])]
         IN  IF \E k \in DOMAIN fed : fed[k] = Error THEN Rejected("type")
             ELSE IF \E i \in DOMAIN cols : cols[i].key \notin DOMAIN sir.features
             THEN Rejected("column")
             ELSE [status |-> "ok", why |-> "",
                   inputs |-> [i \in DOMAIN cols |->
                                  [key |-> cols[i].key,
                                   value |-> Float32(fed[cols[i].key].tenths)]]]

(***************************************************************************)
(* SpecServe: prediction requests on the exported model                    *)
(***************************************************************************)
\* The keys an instance may carry: the CSV columns.
InstanceKeys == Range(CSV_COLUMN_NAMES)

JsonValues == {JsonInt, JsonReal, JsonString}

Instances ==
    UNION {[S -> JsonValues] : S \in SUBSET InstanceKeys}

InitServe ==
    /\ instance = NotYet /\ reply = NotYet
    /\ exported = {} /\ service = NotYet /\ deploy = NotYet /\ answer = NotYet
    /\ ParseIdle /\ ReadIdle /\ TaskIdle /\ TwinIdle
    /\ UploadIdle /\ NameIdle /\ SubmitIdle

\* A request with an instance is sent (requests do not depend on one another:
\* one is followed).
SendInstance ==
    /\ instance = NotYet
    /\ \E inst \in Instances : instance' = [status |-> "sent", body |-> inst]
    /\ reply' = NotYet
    /\ UNCHANGED <<exported, service, deploy, answer, parseVars, readVars,
                   taskVars, twinVars, uploadVars, nameVars, submitVars>>

\* The exported model answers the request.
ServeInstance ==
    /\ instance # NotYet /\ reply = NotYet
    /\ reply' = serve(serving_input_receiver_fn, feature_cols, instance.body)
    /\ UNCHANGED <<instance, exported, service, deploy, answer, parseVars,
                   readVars, taskVars, twinVars, uploadVars, nameVars,
                   submitVars>>

NextServe == SendInstance \/ ServeInstance

SpecServe == InitServe /\ [][NextServe]_vars

FeatureNameSet == Range(FEATURE_NAMES)

\* The type of the CSV default of a column.
DefaultDtype(name) ==
    CSV_DEFAULTS[CHOOSE i \in DOMAIN CSV_COLUMN_NAMES : CSV_COLUMN_NAMES[i] = name].dtype

\* The input names are FEATURE_NAMES, six names, the CSV columns other than
\* fare_amount; each input has the type of its column's CSV default; the
\* feature columns have the same names.
InputsMatchColumns ==
    /\ DOMAIN serving_input_receiver_fn.receiver_tensors = FeatureNameSet
    /\ DOMAIN serving_input_receiver_fn.features = FeatureNameSet
    /\ FeatureNameSet = Range(CSV_COLUMN_NAMES) \ {"fare_amount"}
    /\ Cardinality(FeatureNameSet) = 6
    /\ \A k \in FeatureNameSet :
           serving_input_receiver_fn.receiver_tensors[k] = DefaultDtype(k)
    /\ \A k \in {"dayofweek", "hourofday"} :
           serving_input_receiver_fn.receiver_tensors[k] = "int32"
    /\ \A k \in {"pickuplon", "pickuplat", "dropofflon", "dropofflat"} :
           serving_input_receiver_fn.receiver_tensors[k] = "float32"
    /\ {feature_cols[i].key : i \in DOMAIN feature_cols} = FeatureNameSet
    /\ Len(feature_cols) = 6

CarriesSixKeys == DOMAIN instance.body = FeatureNameSet

ValuesFit ==
    \A k \in DOMAIN instance.body \cap FeatureNameSet :
        IF k \in {"dayofweek", "hourofday"}
        THEN instance.body[k].kind = "int"
        ELSE instance.body[k].kind \in {"int", "real"}

\* C12 as stated: the inputs match the columns, and an instance is accepted
\* exactly when it carries the six keys.
C12_AcceptedIffSixKeys ==
    /\ InputsMatchColumns
    /\ reply # NotYet => (reply.status = "ok" <=> CarriesSixKeys)

\* C12 as amended: the inputs match the columns, and an instance is accepted
\* exactly when it carries the six keys and no other, with integers for
\* dayofweek and hourofday and numbers for the four coordinates; the model
\* then reads the six features in the order of FEATURE_NAMES.
C12_AcceptedIffSixKeysOfTheirTypes ==
    /\ InputsMatchColumns
    /\ reply # NotYet =>
           /\ reply.status = "ok" <=> (CarriesSixKeys /\ ValuesFit)
           /\ reply.status = "ok" =>
                  /\ Len(reply.inputs) = Len(FEATURE_NAMES)
                  /\ \A i \in DOMAIN reply.inputs :
                         /\ reply.inputs[i].key = FEATURE_NAMES[i]
                         /\ reply.inputs[i].value.tenths =
                                instance.body[FEATURE_NAMES[i]].tenths

\* The instance of test.json is accepted: integers for dayofweek and
\* hourofday, numbers that are no integers for the coordinates.
C12_Witness ==
    /\ reply # NotYet /\ reply.status = "ok"
    /\ CarriesSixKeys
    /\ instance.body["dayofweek"] = JsonInt /\ instance.body["hourofday"] = JsonInt
    /\ \A k \in {"pickuplon", "pickuplat", "dropofflon", "dropofflat"} :
           instance.body[k] = JsonReal

====
